---- MODULE Spec2Model ----
(***************************************************************************)
(* EcoRAG-Agent: the provider pool, the fallback dispatcher and the        *)
(* four-node question pipeline of src/agent.py (class QAAgent).            *)
(*                                                                         *)
(* Python strings are modelled as sequences of one-character strings, so   *)
(* that upper(), "in", startswith() and len() are computed, not assumed.   *)
(* Python's None is the one-element sequence NoneVal, which is no string.  *)
(***************************************************************************)
EXTENDS Integers, Sequences, FiniteSets, TLC

(***************************************************************************)
(* Bounds of the model.                                                    *)
(***************************************************************************)
\* how many Groq keys are handed to QAAgent.__init__
MaxGroqKeys == 2
\* how many Gemini keys are handed to QAAgent.__init__
MaxGeminiKeys == 2
\* how many update_stats calls a dashboard sees
MaxQueries == 3

\* how many callers hold a reference to the agent
NumCallers == 2

Callers == 1..NumCallers
\* the reference program is single-threaded: one caller drives the agent
MainCaller == 1

(***************************************************************************)
(* Strings.                                                                *)
(***************************************************************************)
NoneVal == <<"None">>
IsNone(s) == s = NoneVal

LowerLetters ==
  << "a", "b", "c", "d", "e", "f", "g", "h", "i", "j", "k", "l", "m",
     "n", "o", "p", "q", "r", "s", "t", "u", "v", "w", "x", "y", "z" >>
UpperLetters ==
  << "A", "B", "C", "D", "E", "F", "G", "H", "I", "J", "K", "L", "M",
     "N", "O", "P", "Q", "R", "S", "T", "U", "V", "W", "X", "Y", "Z" >>

\* str.upper() on one character
UpperChar(c) ==
  IF \E i \in 1..26 : LowerLetters[i] = c
    THEN UpperLetters[CHOOSE i \in 1..26 : LowerLetters[i] = c]
    ELSE c

\* str.upper()
Upper(s) == [i \in 1..Len(s) |-> UpperChar(s[i])]

\* sub in s
Contains(s, sub) ==
  \E i \in 1..(Len(s) - Len(sub) + 1) : SubSeq(s, i, i + Len(sub) - 1) = sub

\* s.startswith(prefix)
StartsWith(s, prefix) ==
  /\ Len(s) >= Len(prefix)
  /\ SubSeq(s, 1, Len(prefix)) = prefix

Digits == << "0", "1", "2", "3", "4", "5", "6", "7", "8", "9" >>
\* str(n) for the one-digit numbers the pool sizes allow
Str(n) == << Digits[n + 1] >>

YES == << "Y", "E", "S" >>
ErrorPrefix == << "E", "r", "r", "o", "r" >>

\* "Error: No working AI providers available. Please check API keys."
ErrNoProviders ==
  << "E", "r", "r", "o", "r", ":", " ", "N", "o", " ", "w", "o", "r", "k", "i",
     "n", "g", " ", "A", "I", " ", "p", "r", "o", "v", "i", "d", "e", "r", "s",
     " ", "a", "v", "a", "i", "l", "a", "b", "l", "e", ".", " ", "P", "l", "e",
     "a", "s", "e", " ", "c", "h", "e", "c", "k", " ", "A", "P", "I", " ", "k",
     "e", "y", "s", "." >>

\* "Error: All AI providers failed. Please check API keys and try again."
ErrAllFailed ==
  << "E", "r", "r", "o", "r", ":", " ", "A", "l", "l", " ", "A", "I", " ", "p",
     "r", "o", "v", "i", "d", "e", "r", "s", " ", "f", "a", "i", "l", "e", "d",
     ".", " ", "P", "l", "e", "a", "s", "e", " ", "c", "h", "e", "c", "k", " ",
     "A", "P", "I", " ", "k", "e", "y", "s", " ", "a", "n", "d", " ", "t", "r",
     "y", " ", "a", "g", "a", "i", "n", "." >>

\* self.current_provider = "Unknown"
Unknown == << "U", "n", "k", "n", "o", "w", "n" >>

(***************************************************************************)
(* What the providers may answer.  Texts is the set of non-empty texts a   *)
(* provider returns: "Eyes on the ball now" (20 characters, "yes" in lower *)
(* case inside a longer word) and "No need to look it up" (21 characters,  *)
(* no "yes").                                                              *)
(***************************************************************************)
Text20 ==
  << "E", "y", "e", "s", " ", "o", "n", " ", "t", "h", "e", " ", "b", "a", "l",
     "l", " ", "n", "o", "w" >>
Text21 ==
  << "N", "o", " ", "n", "e", "e", "d", " ", "t", "o", " ", "l", "o", "o", "k",
     " ", "i", "t", " ", "u", "p" >>
Texts == { Text20, Text21 }

(***************************************************************************)
(* One credential attempt ends in one of these ways:                       *)
(*   text     the call returns a non-empty text                            *)
(*   empty    the call returns the empty text                              *)
(*   missing  the Groq call returns a message whose content is None        *)
(*   raises   the call (or reading the response) raises an Exception       *)
(*   fatal    the call raises and the per-credential handler itself        *)
(*            raises while it logs the failure (formatting the exception   *)
(*            fails, MemoryError, ...), so the exception leaves the        *)
(*            inner try statement                                          *)
(***************************************************************************)
GroqOutcomes == { "text", "empty", "missing", "raises", "fatal" }
GeminiOutcomes == { "text", "empty", "raises", "fatal" }
Kinds == { "groq", "gemini" }

(***************************************************************************)
(* The fallback dispatcher, QAAgent._call_llm_with_fallback.               *)
(***************************************************************************)
\* f"Groq-{i+1}" and f"Gemini-{i+1}", i the enumerate() index (from 0)
GroqName(i) == << "G", "r", "o", "q", "-" >> \o Str(i + 1)
GeminiName(i) == << "G", "e", "m", "i", "n", "i", "-" >> \o Str(i + 1)
\* the name that carries the enumerate() index itself
ProviderName_Index(kind, i) == IF kind = "groq" THEN GroqName(i - 1) ELSE GeminiName(i - 1)

ProviderName(kind, i) == IF kind = "groq" THEN GroqName(i) ELSE GeminiName(i)

\* the candidate list that looks at the client lists alone
Providers_IgnoresFlags(gc, gm, health) ==
  (IF gc # << >> THEN << "groq" >> ELSE << >>)
  \o (IF gm # << >> THEN << "gemini" >> ELSE << >>)

\* the candidate list: kinds with a non-empty client list and a true flag
Providers(gc, gm, health) ==
  (IF gc # << >> /\ health["groq"] THEN << "groq" >> ELSE << >>)
  \o (IF gm # << >> /\ health["gemini"] THEN << "gemini" >> ELSE << >>)

Range(q) == { q[i] : i \in DOMAIN q }
\* every order random.shuffle(providers) can leave the list in
Shuffles(p) ==
  { q \in [1..Len(p) -> Range(p)] : Range(q) = Range(p) }

\* GroqAttempt without the return statement after a text came back
GroqAttempt_NoReturn(o) ==
  CASE o = "text" -> "continue"
    [] o \in { "empty", "missing" } -> "return"
    [] o = "raises" -> "continue"
    [] o = "fatal" -> "escape"

\* GroqAttempt without the per-credential except clause
GroqAttempt_NoInnerHandler(o) ==
  CASE o \in { "text", "empty", "missing" } -> "return"
    [] o \in { "raises", "fatal" } -> "escape"

\* what the body of the per-credential try statement does with a Groq
\* outcome: the response is returned whatever its content is
GroqAttempt(o) ==
  CASE o \in { "text", "empty", "missing" } -> "return"
    [] o = "raises" -> "continue"
    [] o = "fatal" -> "escape"

\* the same for Gemini: response.text is returned only when it is truthy
GeminiAttempt(o) ==
  CASE o = "text" -> "return"
    [] o \in { "empty", "raises" } -> "continue"
    [] o = "fatal" -> "escape"

AttemptAction(kind, o) ==
  IF kind = "groq" THEN GroqAttempt(o) ELSE GeminiAttempt(o)

\* the value a returning attempt hands back
ResponseText(o, txt) ==
  CASE o = "text" -> txt
    [] o = "empty" -> << >>
    [] OTHER -> NoneVal

\* the loop over one kind's credentials, from position i (1-based) on
RECURSIVE TryKeys(_, _, _, _)
TryKeys(kind, outs, i, log) ==
  IF i > Len(outs)
    THEN [how |-> "exhausted", idx |-> 0, outcome |-> "none", log |-> log]
    ELSE LET o == outs[i]
             act == AttemptAction(kind, o)
             log2 == Append(log, [kind |-> kind, key_index |-> i, outcome |-> o])
         IN  IF act = "continue"
               THEN TryKeys(kind, outs, i + 1, log2)
               ELSE [how |-> act, idx |-> i, outcome |-> o, log |-> log2]

\* the provider loop without its except clause
OuterCatches_Nothing == FALSE

\* "except Exception as e" around one provider: it catches what leaves the
\* per-credential handlers, clears the flag and goes on to the next kind
OuterCatches == TRUE

\* the loop over the shuffled candidate kinds, from position p on
RECURSIVE TryProviders(_, _, _, _, _, _)
TryProviders(order, p, beh, txt, health, log) ==
  IF p > Len(order)
    THEN [raised |-> FALSE, text |-> ErrAllFailed, health |-> health,
          provider |-> NoneVal, attempts |-> log, success |-> FALSE]
    ELSE LET kind == order[p]
             r == TryKeys(kind, beh[kind], 1, log)
         IN  CASE r.how = "return" ->
                    [raised |-> FALSE, text |-> ResponseText(r.outcome, txt),
                     health |-> [health EXCEPT ![kind] = TRUE],
                     provider |-> ProviderName(kind, r.idx - 1),
                     attempts |-> r.log, success |-> TRUE]
               [] r.how = "exhausted" ->
                    TryProviders(order, p + 1, beh, txt, health, r.log)
               [] r.how = "escape" /\ OuterCatches ->
                    TryProviders(order, p + 1, beh, txt,
                                 [health EXCEPT ![kind] = FALSE], r.log)
               [] OTHER ->
                    [raised |-> TRUE, text |-> NoneVal, health |-> health,
                     provider |-> NoneVal, attempts |-> r.log, success |-> FALSE]

\* one call of _call_llm_with_fallback on the agent's fields: the text it
\* returns (or that it raised), the flags and the provider marker it leaves,
\* and the attempts it made in order
call_llm_with_fallback(gc, gm, health, beh, order, txt) ==
  IF Providers(gc, gm, health) = << >>
    THEN [raised |-> FALSE, text |-> ErrNoProviders, health |-> health,
          provider |-> NoneVal, attempts |-> << >>, success |-> FALSE]
    ELSE TryProviders(order, 1, beh, txt, health, << >>)

\* the provider behaviours one call can meet: one outcome per pooled credential
Behaviours(gc, gm) ==
  { [groq |-> g, gemini |-> m] :
      g \in [1..Len(gc) -> GroqOutcomes], m \in [1..Len(gm) -> GeminiOutcomes] }

(***************************************************************************)
(* The retriever (KnowledgeBase.search) and the documents it can return.   *)
(***************************************************************************)
DocA == [content |-> << "A" >>, metadata |-> [source |-> << "s", "1" >>]]
DocB == [content |-> << "B" >>, metadata |-> [source |-> << "s", "2" >>]]
\* a document whose metadata has no source entry
DocC == [content |-> << "C" >>, metadata |-> [title |-> << "c" >>]]
\* the rankings the collection can answer a query with
SearchResults == { << >>, << DocA, DocB >>, << DocC, DocB, DocA >> }
\* n_results of the one search call in retrieve_node
TopK == 3

\* KnowledgeBase.search(query, n_results) when it returns: a ranking of at
\* most n_results documents
search(query, n_results) == { r \in SearchResults : Len(r) <= n_results }

\* 'unknown', the default of metadata.get('source', ...)
UnknownSource == << "u", "n", "k", "n", "o", "w", "n" >>
\* doc['metadata'].get('source', 'unknown')
MetadataSource(doc) ==
  IF "source" \in DOMAIN doc.metadata THEN doc.metadata.source
  ELSE UnknownSource

SourceLabel == << "S", "o", "u", "r", "c", "e", ":", " " >>
ContentLabel == << "\n", "C", "o", "n", "t", "e", "n", "t", ":", " " >>
BlankLine == << "\n", "\n" >>

\* f"Source: {doc['metadata'].get('source', 'unknown')}\nContent: {doc['content']}"
DocBlock(doc) ==
  SourceLabel \o MetadataSource(doc) \o ContentLabel \o doc.content

\* the join that puts the blocks in reverse order
RECURSIVE JoinBlocks_Reversed(_, _)
JoinBlocks_Reversed(documents, i) ==
  IF i > Len(documents) THEN << >>
  ELSE IF i = Len(documents) THEN DocBlock(documents[i])
  ELSE JoinBlocks_Reversed(documents, i + 1) \o BlankLine
         \o DocBlock(documents[i])

\* "\n\n".join(blocks of documents[i..])
RECURSIVE JoinBlocks(_, _)
JoinBlocks(documents, i) ==
  IF i > Len(documents) THEN << >>
  ELSE IF i = Len(documents) THEN DocBlock(documents[i])
  ELSE DocBlock(documents[i]) \o BlankLine \o JoinBlocks(documents, i + 1)

FormatContext(documents) == JoinBlocks(documents, 1)

(***************************************************************************)
(* State.                                                                  *)
(***************************************************************************)
VARIABLES
  agent_pc,          \* where construction stands: "groq", "gemini",
                     \* "constructed" (QAAgent.__init__ returned), "ready";
                     \* in SpecApp also "start" (initialize_components not
                     \* begun) and "failed" (it ended in its handler)
  key_i,             \* the key the initialisation loop looks at next
  groq_clients,      \* self.groq_clients: the kept Groq keys, by input position
  gemini_models,     \* self.gemini_models: the kept Gemini keys, by input position
  api_health,        \* self.api_health
  current_provider,  \* self.current_provider
  pc,                \* per caller: where its ask_question call stands
  st,                \* per caller: the AgentState of its graph run
  result,            \* per caller: what ask_question returned
  last,              \* per caller: what its latest dispatch did (observation)
  hist,              \* per caller: what its running call did so far (observation)
  last_probe,        \* what the latest initialisation probe met (observation)
  health_report,     \* what the latest check_api_health call returned
  health_probes,     \* what the probes of that call met (observation)
  boot,              \* how RAGChatbot.initialize_components went (observation)
  response,          \* per caller: what process_question returned
  stats,             \* SystemStatusDashboard.stats
  api_status         \* what the latest check_api_status call returned

vars == << agent_pc, key_i, groq_clients, gemini_models, api_health,
           current_provider, pc, st, result, last, hist, last_probe,
           health_report, health_probes, boot, response, stats,
           api_status >>

\* the chatbot's and the dashboard's own state, which no step of the agent
\* changes
appVars == << boot, response, stats, api_status >>

\* what no step of a question changes
agentVars == << agent_pc, key_i, groq_clients, gemini_models, last_probe,
                health_report, health_probes >>

Questions == { << "Q" >> }

\* initial_state of ask_question
initial_state(question) ==
  [question |-> question, needs_retrieval |-> FALSE,
   retrieved_documents |-> << >>, context |-> << >>, answer |-> << >>,
   reflection |-> << >>, is_answer_relevant |-> FALSE]

NoState == initial_state(<< >>)
NoResult ==
  [question |-> << >>, needs_retrieval |-> FALSE,
   retrieved_documents |-> << >>, context |-> << >>, answer |-> << >>,
   reflection |-> << >>, is_answer_relevant |-> FALSE,
   current_provider |-> << >>]

NoDispatch ==
  [stage |-> "none", order |-> << >>, attempts |-> << >>, raised |-> FALSE,
   text |-> << >>, success |-> FALSE, would_answer |-> FALSE,
   health_before |-> [k \in Kinds |-> TRUE],
   health_after |-> [k \in Kinds |-> TRUE],
   groq_n |-> 0, gemini_n |-> 0]

NoHist ==
  [kb_calls |-> 0, kb_failed |-> FALSE, dispatches |-> 0,
   answer_by |-> << >>, any_success |-> FALSE, template |-> "none",
   kb_query |-> << >>, kb_k |-> 0, kb_returned |-> << >>,
   plan_end |-> "none", last_by |-> << >>]

NoProbe == [kind |-> "none", key |-> 0, outcome |-> "none"]

NoReport == [groq |-> << >>, gemini |-> << >>, overall_status |-> "Unknown"]
NoHealthProbes == [groq |-> << >>, gemini |-> << >>]

\* process_question has not been called
NoResponse ==
  [kind |-> "none", message |-> "", question |-> << >>, initialized |-> FALSE,
   answer |-> << >>]

\* initialize_components has not begun
NoBoot == [kb |-> "none", keys |-> "none", agent |-> "none", health |-> "none"]

\* SystemStatusDashboard.__init__: self.stats; avg_response_time is kept as
\* the fraction num / den
NoStats ==
  [total_queries |-> 0, successful_queries |-> 0, failed_queries |-> 0,
   avg_response_time |-> [num |-> 0, den |-> 1], providers_used |-> << >>,
   last_health_check |-> "None"]

\* api_status at the head of check_api_status
NoApiStatus == [groq |-> << >>, gemini |-> << >>, overall |-> "Unknown"]

Init ==
  /\ agent_pc = "groq"
  /\ key_i = 1
  /\ groq_clients = << >>
  /\ gemini_models = << >>
  /\ api_health = [k \in Kinds |-> TRUE]
  /\ current_provider = Unknown
  /\ pc = [t \in Callers |-> "idle"]
  /\ st = [t \in Callers |-> NoState]
  /\ result = [t \in Callers |-> NoResult]
  /\ last = [t \in Callers |-> NoDispatch]
  /\ hist = [t \in Callers |-> NoHist]
  /\ last_probe = NoProbe
  /\ health_report = NoReport
  /\ health_probes = NoHealthProbes
  /\ boot = [kb |-> "loaded", keys |-> "set", agent |-> "none", health |-> "none"]
  /\ response = [t \in Callers |-> NoResponse]
  /\ stats = NoStats
  /\ api_status = NoApiStatus

(***************************************************************************)
(* QAAgent.__init__: the two initialisation loops, one key per step.       *)
(***************************************************************************)
GroqProbeOutcomes == { "text", "empty", "missing", "raises" }
\* the key is kept when the test request does not raise
GroqProbeKeeps(o) == o # "raises"

initialize_groq_clients ==
  /\ agent_pc = "groq"
  /\ \E o \in GroqProbeOutcomes :
       /\ groq_clients' = IF GroqProbeKeeps(o) THEN Append(groq_clients, key_i)
                          ELSE groq_clients
       /\ last_probe' = [kind |-> "groq", key |-> key_i, outcome |-> o]
  /\ IF key_i < MaxGroqKeys
       THEN key_i' = key_i + 1 /\ agent_pc' = agent_pc
       ELSE key_i' = 1 /\ agent_pc' = "gemini"
  /\ UNCHANGED appVars
  /\ UNCHANGED << gemini_models, api_health, current_provider, pc, st, result,
                  last, hist, health_report, health_probes >>

\* the model names tried for each Gemini key, in order
ModelNames == << "gemini-2.5-flash", "gemini-2.5-pro", "gemini-1.5-pro",
                 "gemini-1.5-flash" >>
GeminiProbeOutcomes == { "text", "empty", "raises" }
\* working_model is set when some model name answers with a truthy text
GeminiProbeKeeps(outs) == \E n \in 1..Len(ModelNames) : outs[n] = "text"

\* what the probe of one Gemini key met, over the model names it tried:
\* a text from some model name, else an empty response from some model name,
\* else nothing but exceptions (genai.configure raising among them)
GeminiProbeMet(configured, outs) ==
  IF ~ configured THEN "raises"
  ELSE IF \E n \in 1..Len(ModelNames) : outs[n] = "text" THEN "text"
  ELSE IF \E n \in 1..Len(ModelNames) : outs[n] = "empty" THEN "empty"
  ELSE "raises"

initialize_gemini_models ==
  /\ agent_pc = "gemini"
  /\ \E configured \in BOOLEAN :
       \E outs \in [1..Len(ModelNames) -> GeminiProbeOutcomes] :
         /\ gemini_models' = IF configured /\ GeminiProbeKeeps(outs)
                              THEN Append(gemini_models, key_i)
                              ELSE gemini_models
         /\ last_probe' = [kind |-> "gemini", key |-> key_i,
                           outcome |-> GeminiProbeMet(configured, outs)]
  /\ IF key_i < MaxGeminiKeys
       THEN key_i' = key_i + 1 /\ agent_pc' = agent_pc
       ELSE key_i' = 1 /\ agent_pc' = "constructed"
  /\ UNCHANGED appVars
  /\ UNCHANGED << groq_clients, api_health, current_provider, pc, st, result,
                  last, hist, health_report, health_probes >>

\* RAGChatbot.initialize_components after QAAgent(...) returned: the chatbot
\* is initialized whatever the two client lists hold
initialize_components ==
  /\ agent_pc = "constructed"
  /\ agent_pc' = "ready"
  /\ last_probe' = NoProbe
  /\ UNCHANGED appVars
  /\ UNCHANGED << key_i, groq_clients, gemini_models, api_health,
                  current_provider, pc, st, result, last, hist, health_report,
                  health_probes >>

\* self.initialized of the chatbot
initialized == agent_pc = "ready"

(***************************************************************************)
(* The four nodes of the graph and ask_question.                           *)
(***************************************************************************)
\* some pooled credential of a candidate-or-not kind answers with a text
WouldAnswer(beh) ==
  \E k \in Kinds : \E i \in DOMAIN beh[k] : beh[k][i] = "text"

\* what a dispatch leaves for the observer
Observation(stage, d, would_answer, order) ==
  [stage |-> stage, order |-> order, attempts |-> d.attempts,
   raised |-> d.raised, text |-> d.text, success |-> d.success,
   would_answer |-> would_answer,
   health_before |-> api_health, health_after |-> d.health,
   groq_n |-> Len(groq_clients), gemini_n |-> Len(gemini_models)]

\* a client list of n credentials
Pool(n) == [i \in 1..n |-> i]

\* every way one call of _call_llm_with_fallback can go, by the sizes of the
\* two client lists and the flags it starts from: each behaviour of the pooled
\* credentials, each shuffle order and each text a provider may answer
RunsTable ==
  [gn \in 0..MaxGroqKeys, mn \in 0..MaxGeminiKeys, h \in [Kinds -> BOOLEAN] |->
     { [d |-> call_llm_with_fallback(Pool(gn), Pool(mn), h, b[1], b[2], b[3]),
        would_answer |-> WouldAnswer(b[1]), order |-> b[2]] :
         b \in { <<beh, order, txt>> :
                   beh \in Behaviours(Pool(gn), Pool(mn)),
                   order \in Shuffles(Providers(Pool(gn), Pool(mn), h)),
                   txt \in Texts } }]

\* the same table; TLC keeps a function it has compared as an explicit
\* table, so the runs are enumerated once and not in every state
DispatchRuns == IF RunsTable = RunsTable THEN RunsTable ELSE RunsTable

\* the runs a call of self._call_llm_with_fallback can take in this state:
\* it may meet any behaviour of the pooled credentials and any shuffle order
RunsNow == DispatchRuns[Len(groq_clients), Len(gemini_models), api_health]

\* what run r of self._call_llm_with_fallback, called by caller t in the
\* node named stage, does to the agent
Dispatch(t, stage, r) ==
  /\ api_health' = r.d.health
  /\ current_provider' =
       IF r.d.success THEN r.d.provider ELSE current_provider
  /\ last' = [last EXCEPT ![t] =
                Observation(stage, r.d, r.would_answer, r.order)]

\* the decision compared with "YES" as a whole
PlanDecision_Exact(decision) == Upper(decision) = YES

\* "YES" in decision.upper()
PlanDecision(decision) == Contains(Upper(decision), YES)

\* ask_question up to the point where the graph is invoked; the health
\* report of the question before is a local of process_question and is gone
StartWith(t, q) ==
  /\ agent_pc = "ready"
  /\ pc[t] = "idle"
  /\ st' = [st EXCEPT ![t] = initial_state(q)]
  /\ pc' = [pc EXCEPT ![t] = "plan"]
  /\ hist' = [hist EXCEPT ![t] = NoHist]
  /\ health_report' = NoReport
  /\ health_probes' = NoHealthProbes
  /\ UNCHANGED << agent_pc, key_i, groq_clients, gemini_models, last_probe,
                  api_health, current_provider, result, last >>

\* ask_question called with one of the questions, outside the chatbot
Start(t) ==
  /\ \E q \in Questions : StartWith(t, q)
  /\ UNCHANGED appVars

\* how a dispatch ended: a provider's response, every candidate tried in
\* vain, or no candidate at all
DispatchEnd(d) ==
  IF d.success THEN "answered"
  ELSE IF d.attempts = << >> /\ d.text = ErrNoProviders THEN "no_providers"
  ELSE "exhausted"

\* plan_node that also writes the answer field
PlanThen_WritesAnswer(t, d) ==
  /\ hist' = [hist EXCEPT ![t].dispatches = @ + 1,
                          ![t].any_success = @ \/ d.success,
                          ![t].plan_end = DispatchEnd(d),
                          ![t].last_by = IF d.success THEN d.provider ELSE @]
  /\ IF d.raised \/ IsNone(d.text)
       THEN /\ pc' = [pc EXCEPT ![t] = "raised"]
            /\ st' = st
       ELSE /\ pc' = [pc EXCEPT ![t] = "retrieve"]
            /\ st' = [st EXCEPT ![t].needs_retrieval = PlanDecision(d.text),
                                ![t].answer = d.text]

\* plan_node: decision.upper() raises on None
PlanThen(t, d) ==
  /\ hist' = [hist EXCEPT ![t].dispatches = @ + 1,
                          ![t].any_success = @ \/ d.success,
                          ![t].plan_end = DispatchEnd(d),
                          ![t].last_by = IF d.success THEN d.provider ELSE @]
  /\ IF d.raised \/ IsNone(d.text)
       THEN /\ pc' = [pc EXCEPT ![t] = "raised"]
            /\ st' = st
       ELSE /\ pc' = [pc EXCEPT ![t] = "retrieve"]
            /\ st' = [st EXCEPT ![t].needs_retrieval = PlanDecision(d.text)]

plan_node(t) ==
  /\ pc[t] = "plan"
  /\ \E r \in RunsNow :
       /\ Dispatch(t, "plan", r)
       /\ PlanThen(t, r.d)
  /\ UNCHANGED appVars
  /\ UNCHANGED << agentVars, result >>

\* retrieve_node that searches for every question
SkipsRetrieval_Never(state) == FALSE

\* if not state["needs_retrieval"]
SkipsRetrieval(state) == ~ state.needs_retrieval

\* retrieve_node: the retriever is called only when needs_retrieval is set;
\* an exception of kb.search is not caught
retrieve_node(t) ==
  /\ pc[t] = "retrieve"
  /\ IF SkipsRetrieval(st[t])
       THEN /\ st' = [st EXCEPT ![t].retrieved_documents = << >>,
                                ![t].context = << >>]
            /\ pc' = [pc EXCEPT ![t] = "answer"]
            /\ hist' = hist
       ELSE \/ \E documents \in search(st[t].question, TopK) :
                 /\ st' = [st EXCEPT ![t].retrieved_documents = documents,
                                     ![t].context = FormatContext(documents)]
                 /\ pc' = [pc EXCEPT ![t] = "answer"]
                 /\ hist' = [hist EXCEPT ![t].kb_calls = @ + 1,
                                         ![t].kb_query = st[t].question,
                                         ![t].kb_k = TopK,
                                         ![t].kb_returned = documents]
            \/ /\ st' = st
               /\ pc' = [pc EXCEPT ![t] = "raised"]
               /\ hist' = [hist EXCEPT ![t].kb_calls = @ + 1,
                                       ![t].kb_query = st[t].question,
                                       ![t].kb_k = TopK,
                                       ![t].kb_failed = TRUE]
  /\ last' = [last EXCEPT ![t] = NoDispatch]
  /\ UNCHANGED appVars
  /\ UNCHANGED << agentVars, api_health, current_provider, result >>

\* the prompt template answer_node picks
Template(state) ==
  IF state.needs_retrieval /\ state.context # << >> THEN "with_context"
  ELSE "general"

\* answer_node: answer[:100] raises on None
AnswerThen(t, d) ==
  /\ hist' = [hist EXCEPT ![t].dispatches = @ + 1,
                          ![t].any_success = @ \/ d.success,
                          ![t].template = Template(st[t]),
                          ![t].answer_by =
                             IF d.success THEN d.provider ELSE << >>,
                          ![t].last_by = IF d.success THEN d.provider ELSE @]
  /\ IF d.raised \/ IsNone(d.text)
       THEN /\ pc' = [pc EXCEPT ![t] = "raised"]
            /\ st' = st
       ELSE /\ pc' = [pc EXCEPT ![t] = "reflect"]
            /\ st' = [st EXCEPT ![t].answer = d.text]

answer_node(t) ==
  /\ pc[t] = "answer"
  /\ \E r \in RunsNow :
       /\ Dispatch(t, "answer", r)
       /\ AnswerThen(t, r.d)
  /\ UNCHANGED appVars
  /\ UNCHANGED << agentVars, result >>

\* the relevance test that accepts an answer of 20 characters
IsRelevant_AtLeast20(answer) ==
  Len(answer) >= 20 /\ ~ StartsWith(answer, ErrorPrefix)

\* the relevance test that looks at the length alone
IsRelevant_LengthOnly(answer) == Len(answer) > 20

\* len(answer) > 20 and not answer.startswith("Error")
IsRelevant(answer) == Len(answer) > 20 /\ ~ StartsWith(answer, ErrorPrefix)

\* reflect_node that calls no answer relevant when its own dispatch failed
ReflectThen_FailureNotRelevant(t, d) ==
  /\ hist' = [hist EXCEPT ![t].dispatches = @ + 1,
                          ![t].any_success = @ \/ d.success,
                          ![t].last_by = IF d.success THEN d.provider ELSE @]
  /\ IF d.raised
       THEN /\ pc' = [pc EXCEPT ![t] = "raised"]
            /\ st' = st
       ELSE /\ pc' = [pc EXCEPT ![t] = "end"]
            /\ st' = [st EXCEPT ![t].reflection = d.text,
                                ![t].is_answer_relevant =
                                   d.success /\ IsRelevant(st[t].answer)]

\* reflect_node: the relevance test reads the answer alone
ReflectThen(t, d) ==
  /\ hist' = [hist EXCEPT ![t].dispatches = @ + 1,
                          ![t].any_success = @ \/ d.success,
                          ![t].last_by = IF d.success THEN d.provider ELSE @]
  /\ IF d.raised
       THEN /\ pc' = [pc EXCEPT ![t] = "raised"]
            /\ st' = st
       ELSE /\ pc' = [pc EXCEPT ![t] = "end"]
            /\ st' = [st EXCEPT ![t].reflection = d.text,
                                ![t].is_answer_relevant =
                                   IsRelevant(st[t].answer)]

reflect_node(t) ==
  /\ pc[t] = "reflect"
  /\ \E r \in RunsNow :
       /\ Dispatch(t, "reflect", r)
       /\ ReflectThen(t, r.d)
  /\ UNCHANGED appVars
  /\ UNCHANGED << agentVars, result >>

\* the provider marker ask_question puts into the returned state
ResultProvider == current_provider

\* ask_question after graph.invoke returned: the marker is read from the agent
ask_question(t) ==
  /\ pc[t] = "end"
  /\ result' = [result EXCEPT ![t] =
       [question |-> st[t].question,
        needs_retrieval |-> st[t].needs_retrieval,
        retrieved_documents |-> st[t].retrieved_documents,
        context |-> st[t].context, answer |-> st[t].answer,
        reflection |-> st[t].reflection,
        is_answer_relevant |-> st[t].is_answer_relevant,
        current_provider |-> ResultProvider]]
  /\ pc' = [pc EXCEPT ![t] = "done"]
  /\ last' = [last EXCEPT ![t] = NoDispatch]
  /\ UNCHANGED appVars
  /\ UNCHANGED << agentVars, api_health, current_provider, st, hist >>

\* the caller has read the result (or caught the exception); the state of
\* the run is dropped
Return(t) ==
  /\ pc[t] \in { "done", "raised" }
  /\ pc' = [pc EXCEPT ![t] = "idle"]
  /\ st' = [st EXCEPT ![t] = NoState]
  /\ result' = [result EXCEPT ![t] = NoResult]
  /\ last' = [last EXCEPT ![t] = NoDispatch]
  /\ hist' = [hist EXCEPT ![t] = NoHist]
  /\ UNCHANGED appVars
  /\ UNCHANGED << agentVars, api_health, current_provider >>

Step(t) ==
  \/ Start(t)
  \/ plan_node(t)
  \/ retrieve_node(t)
  \/ answer_node(t)
  \/ reflect_node(t)
  \/ ask_question(t)
  \/ Return(t)

Next ==
  \/ initialize_groq_clients
  \/ initialize_gemini_models
  \/ initialize_components
  \/ Step(MainCaller)

Spec == Init /\ [][Next]_vars

(***************************************************************************)
(* QAAgent.check_api_health: one request per pooled credential and a fresh *)
(* report.  The chatbot calls it once the agent is constructed and after   *)
(* every question; it reads the two client lists and writes no field of    *)
(* the agent, so it is explored in a specification of its own, SpecHealth, *)
(* over every pool construction can leave behind.                          *)
(***************************************************************************)
\* the status of one credential: Healthy unless the request raised
ProbeStatus(o) == IF o = "raises" THEN "Unhealthy" ELSE "Healthy"

\* health_report['groq'] or health_report['gemini'] after the loop
ReportEntries(provider, outs) ==
  [i \in 1..Len(outs) |->
     [key_index |-> i, status |-> ProbeStatus(outs[i]), provider |-> provider]]

\* sum(1 for item in entries if item['status'] == 'Healthy')
HealthyCount(entries) ==
  Cardinality({ i \in DOMAIN entries : entries[i].status = "Healthy" })

\* the level that looks at Groq alone unless both kinds are healthy
OverallStatus_GroqOnly(healthy_groq, healthy_gemini) ==
  IF healthy_groq > 0 /\ healthy_gemini > 0 THEN "Excellent"
  ELSE IF healthy_groq > 0 THEN "Good"
  ELSE "Critical"

\* health_report['overall_status']
OverallStatus(healthy_groq, healthy_gemini) ==
  IF healthy_groq > 0 /\ healthy_gemini > 0 THEN "Excellent"
  ELSE IF healthy_groq > 0 \/ healthy_gemini > 0 THEN "Good"
  ELSE "Critical"

\* the health check that writes what it found into the dispatch-time flags
check_api_health_SyncsFlags ==
  /\ initialized
  /\ health_report = NoReport
  /\ \E g \in [1..Len(groq_clients) -> GroqProbeOutcomes] :
       \E m \in [1..Len(gemini_models) -> GeminiProbeOutcomes] :
         /\ health_probes' = [groq |-> g, gemini |-> m]
         /\ health_report' =
              [groq |-> ReportEntries("Groq", g),
               gemini |-> ReportEntries("Gemini", m),
               overall_status |->
                 OverallStatus(HealthyCount(ReportEntries("Groq", g)),
                               HealthyCount(ReportEntries("Gemini", m)))]
         /\ api_health' =
              [groq |-> HealthyCount(ReportEntries("Groq", g)) > 0,
               gemini |-> HealthyCount(ReportEntries("Gemini", m)) > 0]
  /\ UNCHANGED appVars
  /\ UNCHANGED << agent_pc, key_i, groq_clients, gemini_models,
                  current_provider, pc, st, result, last, hist, last_probe >>

\* the credentials of a client list whose probe did not raise, from i on
RECURSIVE Surviving(_, _, _)
Surviving(clients, outs, i) ==
  IF i > Len(clients) THEN << >>
  ELSE IF outs[i] # "raises" THEN << clients[i] >> \o Surviving(clients, outs, i + 1)
  ELSE Surviving(clients, outs, i + 1)

\* the health check that drops the credentials it found Unhealthy
check_api_health_Prunes ==
  /\ initialized
  /\ health_report = NoReport
  /\ \E g \in [1..Len(groq_clients) -> GroqProbeOutcomes] :
       \E m \in [1..Len(gemini_models) -> GeminiProbeOutcomes] :
         /\ health_probes' = [groq |-> g, gemini |-> m]
         /\ health_report' =
              [groq |-> ReportEntries("Groq", g),
               gemini |-> ReportEntries("Gemini", m),
               overall_status |->
                 OverallStatus(HealthyCount(ReportEntries("Groq", g)),
                               HealthyCount(ReportEntries("Gemini", m)))]
         /\ groq_clients' = Surviving(groq_clients, g, 1)
         /\ gemini_models' = Surviving(gemini_models, m, 1)
  /\ UNCHANGED appVars
  /\ UNCHANGED << agent_pc, key_i, api_health, current_provider, pc, st,
                  result, last, hist, last_probe >>

check_api_health ==
  /\ initialized
  /\ health_report = NoReport
  /\ \E g \in [1..Len(groq_clients) -> GroqProbeOutcomes] :
       \E m \in [1..Len(gemini_models) -> GeminiProbeOutcomes] :
         /\ health_probes' = [groq |-> g, gemini |-> m]
         /\ health_report' =
              [groq |-> ReportEntries("Groq", g),
               gemini |-> ReportEntries("Gemini", m),
               overall_status |->
                 OverallStatus(HealthyCount(ReportEntries("Groq", g)),
                               HealthyCount(ReportEntries("Gemini", m)))]
  /\ UNCHANGED appVars
  /\ UNCHANGED << agent_pc, key_i, groq_clients, gemini_models, api_health,
                  current_provider, pc, st, result, last, hist, last_probe >>

NextHealth ==
  \/ initialize_groq_clients
  \/ initialize_gemini_models
  \/ initialize_components
  \/ check_api_health

SpecHealth == Init /\ [][NextHealth]_vars

(***************************************************************************)
(* The chatbot as a whole: questions one after the other and, after        *)
(* construction and after each question, the follow-up health check of     *)
(* initialize_components and process_question.                             *)
(***************************************************************************)
\* health = self.agent.check_api_health() between two questions of caller t
HealthCheck(t) ==
  /\ pc[t] = "idle"
  /\ check_api_health

NextProbe ==
  \/ initialize_groq_clients
  \/ initialize_gemini_models
  \/ initialize_components
  \/ Step(MainCaller)
  \/ HealthCheck(MainCaller)

SpecProbe == Init /\ [][NextProbe]_vars

(***************************************************************************)
(* Callers in parallel on the one agent: every caller runs ask_question,   *)
(* node by node, and the steps of different callers interleave.  The       *)
(* runs explored are those of an agent none of whose Gemini keys passed    *)
(* its probe and in which no exception leaves a per-credential handler.    *)
(***************************************************************************)
ConcScope == gemini_models = << >> /\ \A k \in Kinds : api_health[k]

NextConc ==
  /\ \/ initialize_groq_clients
     \/ initialize_gemini_models
     \/ initialize_components
     \/ \E t \in Callers : Step(t)
  /\ ConcScope'

SpecConc == Init /\ [][NextConc]_vars

(***************************************************************************)
(* RAGChatbot (src/app.py) from its construction on: initialize_components *)
(* as a whole (the knowledge base, the keys of the environment, QAAgent,   *)
(* the first health check) and process_question as a whole (the two        *)
(* refusals, ask_question node by node, the follow-up health check, the    *)
(* response or the error response).  The runs explored in SpecApp are      *)
(* those of a chatbot none of whose Gemini keys passed its probe.          *)
(***************************************************************************)
Whitespace == { " ", "\t", "\n", "\r" }

\* str.strip(): the string without the whitespace at its two ends
RECURSIVE lstrip(_)
lstrip(s) ==
  IF s # << >> /\ Head(s) \in Whitespace THEN lstrip(Tail(s)) ELSE s
RECURSIVE rstrip(_)
rstrip(s) ==
  IF s # << >> /\ s[Len(s)] \in Whitespace
    THEN rstrip(SubSeq(s, 1, Len(s) - 1))
    ELSE s
strip(s) == rstrip(lstrip(s))

\* the test that takes the empty string alone for no question
IsBlank_EmptyOnly(question) == question = << >>

\* not question.strip()
IsBlank(question) == strip(question) = << >>

\* what a user may type into the question box
Inputs == Questions \cup { << >>, << " " >>, << "\t", " ", "\n" >> }

NotInitializedMessage ==
  "System not initialized. Please check API keys and try again."
EmptyQuestionMessage == "Please enter a question."

AppScope == gemini_models = << >>

InitApp ==
  /\ agent_pc = "start"
  /\ key_i = 1
  /\ groq_clients = << >>
  /\ gemini_models = << >>
  /\ api_health = [k \in Kinds |-> TRUE]
  /\ current_provider = Unknown
  /\ pc = [t \in Callers |-> "idle"]
  /\ st = [t \in Callers |-> NoState]
  /\ result = [t \in Callers |-> NoResult]
  /\ last = [t \in Callers |-> NoDispatch]
  /\ hist = [t \in Callers |-> NoHist]
  /\ last_probe = NoProbe
  /\ health_report = NoReport
  /\ health_probes = NoHealthProbes
  /\ boot = NoBoot
  /\ response = [t \in Callers |-> NoResponse]
  /\ stats = NoStats
  /\ api_status = NoApiStatus

\* initialize_components up to the call of QAAgent: KnowledgeBase() or
\* load_sample_data may raise, and ValueError is raised when no key of
\* either kind is set; the handler leaves initialized False
load_knowledge_base ==
  /\ agent_pc = "start"
  /\ \E kb \in { "loaded", "raises" }, keys \in { "set", "unset" } :
       /\ boot' = [boot EXCEPT !.kb = kb,
                               !.keys = IF kb = "loaded" THEN keys ELSE "none"]
       /\ agent_pc' = IF kb = "loaded" /\ keys = "set" THEN "groq" ELSE "failed"
  /\ UNCHANGED << key_i, groq_clients, gemini_models, api_health,
                  current_provider, pc, st, result, last, hist, last_probe,
                  health_report, health_probes, response, stats, api_status >>

\* the report of one check_api_health call over probe outcomes g and m
HealthReport(g, m) ==
  [groq |-> ReportEntries("Groq", g),
   gemini |-> ReportEntries("Gemini", m),
   overall_status |->
     OverallStatus(HealthyCount(ReportEntries("Groq", g)),
                   HealthyCount(ReportEntries("Gemini", m)))]

\* initialize_components from the end of the two initialisation loops on:
\* _build_graph returns or raises; then initialized is set and the first
\* health check runs; an exception on the way leaves initialized False
finish_initialization ==
  /\ agent_pc = "constructed"
  /\ AppScope
  /\ \E built \in BOOLEAN, reported \in BOOLEAN :
       \E g \in [1..Len(groq_clients) -> GroqProbeOutcomes] :
         \E m \in [1..Len(gemini_models) -> GeminiProbeOutcomes] :
           IF built /\ reported
             THEN /\ agent_pc' = "ready"
                  /\ boot' = [boot EXCEPT !.agent = "built", !.health = "reported"]
                  /\ health_report' = HealthReport(g, m)
                  /\ health_probes' = [groq |-> g, gemini |-> m]
             ELSE /\ agent_pc' = "failed"
                  /\ boot' = [boot EXCEPT
                                !.agent = IF built THEN "built" ELSE "raises",
                                !.health = IF built THEN "raises" ELSE "none"]
                  /\ UNCHANGED << health_report, health_probes >>
  /\ last_probe' = NoProbe
  /\ UNCHANGED << key_i, groq_clients, gemini_models, api_health,
                  current_provider, pc, st, result, last, hist, response,
                  stats, api_status >>

\* what process_question returns without calling the agent
Refusal(message, question) ==
  [kind |-> "refusal", message |-> message, question |-> question,
   initialized |-> initialized, answer |-> << >>]

\* process_question up to the call of ask_question: the two refusals, else
\* the graph is invoked on the question as typed
process_question(t) ==
  /\ agent_pc \in { "ready", "failed" }
  /\ pc[t] = "idle"
  /\ \E question \in Inputs :
       IF ~ initialized
         THEN /\ response' = [response EXCEPT ![t] =
                               Refusal(NotInitializedMessage, question)]
              /\ UNCHANGED << agent_pc, key_i, groq_clients, gemini_models,
                              api_health, current_provider, pc, st, result,
                              last, hist, last_probe, health_report,
                              health_probes >>
       ELSE IF IsBlank(question)
         THEN /\ response' = [response EXCEPT ![t] =
                               Refusal(EmptyQuestionMessage, question)]
              /\ UNCHANGED << agent_pc, key_i, groq_clients, gemini_models,
                              api_health, current_provider, pc, st, result,
                              last, hist, last_probe, health_report,
                              health_probes >>
       ELSE /\ StartWith(t, question)
            /\ response' = [response EXCEPT ![t] =
                             [kind |-> "pending", message |-> "",
                              question |-> question, initialized |-> initialized,
                              answer |-> << >>]]
  /\ UNCHANGED << boot, stats, api_status >>

\* process_question without its except clause
ProcessCatches_Nothing == FALSE

\* "except Exception as e" of process_question: what ask_question or the
\* follow-up health check raises becomes the error response
ProcessCatches == TRUE

\* the error response, or the exception where nothing catches it
ErrorResponse(r) ==
  [r EXCEPT !.kind = IF ProcessCatches THEN "error" ELSE "raised",
            !.message = IF ProcessCatches THEN "System Error" ELSE ""]

\* process_question after ask_question returned: the follow-up health check
\* and the formatted response, or the error response when the check raises
respond(t) ==
  /\ pc[t] = "done"
  /\ \E reported \in BOOLEAN :
       \E g \in [1..Len(groq_clients) -> GroqProbeOutcomes] :
         \E m \in [1..Len(gemini_models) -> GeminiProbeOutcomes] :
           IF reported
             THEN /\ health_report' = HealthReport(g, m)
                  /\ health_probes' = [groq |-> g, gemini |-> m]
                  /\ response' = [response EXCEPT ![t] =
                                   [@ EXCEPT !.kind = "response",
                                             !.answer = result[t].answer]]
             ELSE /\ UNCHANGED << health_report, health_probes >>
                  /\ response' = [response EXCEPT ![t] = ErrorResponse(@)]
  /\ pc' = [pc EXCEPT ![t] = "idle"]
  /\ st' = [st EXCEPT ![t] = NoState]
  /\ result' = [result EXCEPT ![t] = NoResult]
  /\ last' = [last EXCEPT ![t] = NoDispatch]
  /\ hist' = [hist EXCEPT ![t] = NoHist]
  /\ UNCHANGED << agent_pc, key_i, groq_clients, gemini_models, last_probe,
                  api_health, current_provider, boot, stats, api_status >>

\* process_question after ask_question raised: the error response
respond_error(t) ==
  /\ pc[t] = "raised"
  /\ response' = [response EXCEPT ![t] = ErrorResponse(@)]
  /\ pc' = [pc EXCEPT ![t] = "idle"]
  /\ st' = [st EXCEPT ![t] = NoState]
  /\ result' = [result EXCEPT ![t] = NoResult]
  /\ last' = [last EXCEPT ![t] = NoDispatch]
  /\ hist' = [hist EXCEPT ![t] = NoHist]
  /\ UNCHANGED << agentVars, api_health, current_provider, boot, stats,
                  api_status >>

NextApp ==
  \/ load_knowledge_base
  \/ initialize_groq_clients
  \/ initialize_gemini_models
  \/ finish_initialization
  \/ process_question(MainCaller)
  \/ plan_node(MainCaller)
  \/ retrieve_node(MainCaller)
  \/ answer_node(MainCaller)
  \/ reflect_node(MainCaller)
  \/ ask_question(MainCaller)
  \/ respond(MainCaller)
  \/ respond_error(MainCaller)

SpecApp == InitApp /\ [][NextApp]_vars

(***************************************************************************)
(* SystemStatusDashboard (src/status_dashboard.py): the statistics kept by *)
(* update_stats, explored in SpecStats, and the key report of              *)
(* check_api_status, explored in SpecStatus.  The dashboard probes the     *)
(* keys of the environment itself and shares no state with the agent.      *)
(***************************************************************************)
\* the providers, response times and clock readings a call may be given
StatProviders == { Unknown, GroqName(0), GeminiName(0) }
ResponseTimes == { 0, 1 }
Stamps == { "2025-01-01 00:00:00", "2025-01-01 00:00:01" }

\* a fraction with a power of two below the line, in lowest terms
RECURSIVE Reduced(_)
Reduced(f) ==
  IF f.den > 1 /\ f.num % 2 = 0
    THEN Reduced([num |-> f.num \div 2, den |-> f.den \div 2])
    ELSE f

\* avg_response_time after a call: response_time while the average is 0,
\* else (avg_response_time + response_time) / 2
AvgResponseTime(avg, response_time) ==
  IF avg.num = 0 THEN [num |-> response_time, den |-> 1]
  ELSE Reduced([num |-> avg.num + response_time * avg.den, den |-> 2 * avg.den])

\* the count that starts every provider anew at 1
ProvidersUsed_Overwrites(used, provider) ==
  (provider :> 1) @@ [q \in DOMAIN used \ { provider } |-> used[q]]

\* providers_used after a call: the provider's count goes up by one, from 0
\* for a provider not yet seen
ProvidersUsed(used, provider) ==
  IF provider \in DOMAIN used
    THEN [used EXCEPT ![provider] = @ + 1]
    ELSE (provider :> 1) @@ used

update_stats ==
  /\ stats.total_queries < MaxQueries
  /\ \E success \in BOOLEAN, provider \in StatProviders,
        response_time \in ResponseTimes, now \in Stamps :
       stats' =
         [total_queries |-> stats.total_queries + 1,
          successful_queries |->
            IF success THEN stats.successful_queries + 1
            ELSE stats.successful_queries,
          failed_queries |->
            IF success THEN stats.failed_queries
            ELSE stats.failed_queries + 1,
          providers_used |-> ProvidersUsed(stats.providers_used, provider),
          avg_response_time |->
            AvgResponseTime(stats.avg_response_time, response_time),
          last_health_check |-> now]
  /\ UNCHANGED << agent_pc, key_i, groq_clients, gemini_models, api_health,
                  current_provider, pc, st, result, last, hist, last_probe,
                  health_report, health_probes, boot, response, api_status >>

NextStats == update_stats

SpecStats == Init /\ [][NextStats]_vars

\* the status texts of an entry
Healthy == << "H", "e", "a", "l", "t", "h", "y" >>
Unhealthy == << "U", "n", "h", "e", "a", "l", "t", "h", "y" >>
NotSet == << "N", "o", "t", " ", "S", "e", "t" >>

\* the names of the environment variables the dashboard reads
GroqKeyNames == << "GROQ_API_KEY", "GROQ_API_KEY_2", "GROQ_API_KEY_3" >>
GeminiKeyNames == << "GEMINI_API_KEY", "GEMINI_API_KEY_2", "GEMINI_API_KEY_3" >>
DashboardSlots == 3

\* what the dashboard meets at one key: the variable is not set, the "ping"
\* request returns (the response is not read), or it raises
GroqSlotOutcomes == { "unset", "text", "raises" }
GeminiSlotOutcomes == { "unset", "text", "raises" }

\* the status of one key: Not Set, else Healthy unless the request raised
SlotStatus(o) ==
  IF o = "unset" THEN NotSet
  ELSE IF o = "raises" THEN Unhealthy
  ELSE Healthy

\* api_status['groq'] or api_status['gemini'] after the loop
SlotEntries(names, outs) ==
  [i \in 1..DashboardSlots |-> [name |-> names[i], status |-> SlotStatus(outs[i])]]

\* sum(1 for item in entries if 'Healthy' in item['status'])
DashboardHealthyCount(entries) ==
  Cardinality({ i \in DOMAIN entries : Contains(entries[i].status, Healthy) })

\* api_status['overall']
DashboardOverall(healthy_groq, healthy_gemini) ==
  IF healthy_groq >= 2 /\ healthy_gemini >= 1 THEN "Excellent"
  ELSE IF healthy_groq >= 1 THEN "Good"
  ELSE "Critical"

check_api_status ==
  /\ \E g \in [1..DashboardSlots -> GroqSlotOutcomes] :
       \E m \in [1..DashboardSlots -> GeminiSlotOutcomes] :
         api_status' =
           [groq |-> SlotEntries(GroqKeyNames, g),
            gemini |-> SlotEntries(GeminiKeyNames, m),
            overall |->
              DashboardOverall(
                DashboardHealthyCount(SlotEntries(GroqKeyNames, g)),
                DashboardHealthyCount(SlotEntries(GeminiKeyNames, m)))]
  /\ UNCHANGED << agent_pc, key_i, groq_clients, gemini_models, api_health,
                  current_provider, pc, st, result, last, hist, last_probe,
                  health_report, health_probes, boot, response, stats >>

NextStatus == check_api_status

SpecStatus == Init /\ [][NextStatus]_vars

(***************************************************************************)
(* Properties.                                                             *)
(***************************************************************************)
\* caller t has a dispatch behind it that is still on record
Dispatched(t) == last[t].stage # "none"

\* the dispatch handed back a provider's non-empty text
SuccessfulResponse(l) ==
  /\ ~ l.raised
  /\ l.success
  /\ ~ IsNone(l.text)
  /\ l.text # << >>

\* no credential appears twice in an attempt log
NoRepeat(log) ==
  \A i, j \in DOMAIN log :
    i # j => << log[i].kind, log[i].key_index >> # << log[j].kind, log[j].key_index >>

\* the kinds an attempt log touches
AttemptedKinds(log) == { log[i].kind : i \in DOMAIN log }

\* every failure the call met is one the per-credential handlers are written
\* for, and the call started with both flags true
OrdinaryCall(l) ==
  /\ \A k \in Kinds : l.health_before[k]
  /\ \A i \in DOMAIN l.attempts : l.attempts[i].outcome # "fatal"

\* C1: whenever at least one pooled credential of some kind would answer
\* with a text, a dispatch returns a successful response; it makes at most
\* as many attempts as there are credentials and tries none twice, whatever
\* the shuffle order.  Stated for the calls that start with both flags true
\* and meet ordinary failures only, where the claim has its best case
C1_DispatchSucceedsWhenSomeCredentialWorks ==
  \A t \in Callers :
    (Dispatched(t) /\ OrdinaryCall(last[t])) =>
      /\ Len(last[t].attempts) <= last[t].groq_n + last[t].gemini_n
      /\ NoRepeat(last[t].attempts)
      /\ last[t].would_answer => SuccessfulResponse(last[t])

\* C2: within one dispatch nothing is attempted after an attempt that
\* answered with a text: such an attempt is the last one of the call, and
\* its text is what the call returns
C2_FirstSuccessEndsTheCall ==
  \A t \in Callers :
    Dispatched(t) =>
      \A i \in DOMAIN last[t].attempts :
        last[t].attempts[i].outcome = "text" =>
          /\ i = Len(last[t].attempts)
          /\ SuccessfulResponse(last[t])

\* a dispatch answered by the first credential of the first kind while a
\* second credential of that kind and a second candidate kind were left
C2_Witness ==
  \E t \in Callers :
    /\ Dispatched(t)
    /\ Len(last[t].order) = 2
    /\ last[t].groq_n = 2
    /\ last[t].gemini_n = 2
    /\ Len(last[t].attempts) = 1
    /\ last[t].attempts[1].outcome = "text"
    /\ last[t].text \in Texts

\* C3: a dispatch that ends in the terminal failure after every credential
\* it tried has failed leaves the flag of every attempted kind false
C3_ExhaustionClearsAttemptedFlags ==
  \A t \in Callers :
    (Dispatched(t) /\ ~ last[t].raised /\ ~ last[t].success
       /\ last[t].attempts # << >>) =>
      \A k \in AttemptedKinds(last[t].attempts) : ~ last[t].health_after[k]

\* C4: a false flag alone never makes a dispatch fail without an attempt:
\* over a pool that holds a credential, every dispatch attempts one
C4_FalseFlagStillAttempted ==
  \A t \in Callers :
    (Dispatched(t) /\ last[t].groq_n + last[t].gemini_n > 0) =>
      last[t].attempts # << >>

\* C5: a dispatch never raises, whatever the credentials do, and when no
\* credential answered it returns a text that starts with "Error"
C5_DispatchNeverRaises ==
  \A t \in Callers :
    Dispatched(t) =>
      /\ ~ last[t].raised
      /\ ~ last[t].success =>
           (~ IsNone(last[t].text) /\ StartsWith(last[t].text, ErrorPrefix))

\* a dispatch that met an exception and an empty response, exhausted every
\* credential of both kinds and returned the exhaustion text
C5_Witness ==
  \E t \in Callers :
    /\ Dispatched(t)
    /\ ~ last[t].success
    /\ last[t].text = ErrAllFailed
    /\ Len(last[t].attempts) = last[t].groq_n + last[t].gemini_n
    /\ \E i \in DOMAIN last[t].attempts : last[t].attempts[i].outcome = "raises"
    /\ \E i \in DOMAIN last[t].attempts : last[t].attempts[i].outcome = "empty"

\* C6: no exception leaves ask_question, whatever the providers and the
\* retriever do
C6_AskQuestionNeverRaises ==
  \A t \in Callers : pc[t] # "raised"

\* C7: the provider marker of the returned state names the credential whose
\* response became the answer
C7_ProviderNamesAnswerer ==
  \A t \in Callers :
    (pc[t] = "done" /\ hist[t].answer_by # << >>) =>
      result[t].current_provider = hist[t].answer_by

\* C8: the returned state holds nothing of an earlier call: when no dispatch
\* of this call was answered, the provider marker is the fresh "Unknown"
C8_NoValueFromEarlierCall ==
  \A t \in Callers :
    (pc[t] = "done" /\ ~ hist[t].any_success) =>
      result[t].current_provider = Unknown

\* the letters Y, E, S in a row, in either case, somewhere in s
HasYesAnywhere(s) ==
  \E i \in 1..(Len(s) - 2) :
    /\ s[i] \in { "y", "Y" }
    /\ s[i + 1] \in { "e", "E" }
    /\ s[i + 2] \in { "s", "S" }

\* C9: after Plan, needs_retrieval is true exactly when the classifier
\* response holds "yes" in any case anywhere, also inside a longer word
C9_PlanDecidesByYesSubstring ==
  \A t \in Callers :
    (pc[t] = "retrieve" /\ last[t].stage = "plan") =>
      (st[t].needs_retrieval <=> HasYesAnywhere(last[t].text))

\* Plan said yes on "Eyes on the ball now", where "yes" sits in lower case
\* inside a word
C9_Witness ==
  \E t \in Callers :
    /\ pc[t] = "retrieve"
    /\ last[t].stage = "plan"
    /\ last[t].text = Text20
    /\ st[t].needs_retrieval

\* C10: with needs_retrieval false, Retrieve leaves no documents and the
\* empty context and never calls the retriever, so no retriever failure can
\* reach the run
C10_NoRetrievalWhenNotNeeded ==
  \A t \in Callers :
    /\ (pc[t] \in { "answer", "reflect", "end", "done" }
          /\ ~ st[t].needs_retrieval) =>
         /\ st[t].retrieved_documents = << >>
         /\ st[t].context = << >>
         /\ hist[t].kb_calls = 0
    /\ (pc[t] = "raised" /\ ~ st[t].needs_retrieval) =>
         (hist[t].kb_calls = 0 /\ ~ hist[t].kb_failed)

\* Retrieve has run on a state whose needs_retrieval is false
C10_Witness ==
  \E t \in Callers :
    /\ pc[t] = "answer"
    /\ ~ st[t].needs_retrieval
    /\ last[t].stage = "none"
    /\ hist[t].dispatches = 1
    /\ hist[t].kb_calls = 0

\* the context of the ranking DocA, DocB, written out:
\* "Source: s1\nContent: A\n\nSource: s2\nContent: B"
ContextAB ==
  << "S", "o", "u", "r", "c", "e", ":", " ", "s", "1", "\n",
     "C", "o", "n", "t", "e", "n", "t", ":", " ", "A", "\n", "\n",
     "S", "o", "u", "r", "c", "e", ":", " ", "s", "2", "\n",
     "C", "o", "n", "t", "e", "n", "t", ":", " ", "B" >>

\* the context of the ranking DocC, DocB, DocA, written out
ContextCBA ==
  << "S", "o", "u", "r", "c", "e", ":", " ", "u", "n", "k", "n", "o", "w", "n",
     "\n", "C", "o", "n", "t", "e", "n", "t", ":", " ", "C", "\n", "\n",
     "S", "o", "u", "r", "c", "e", ":", " ", "s", "2", "\n",
     "C", "o", "n", "t", "e", "n", "t", ":", " ", "B", "\n", "\n",
     "S", "o", "u", "r", "c", "e", ":", " ", "s", "1", "\n",
     "C", "o", "n", "t", "e", "n", "t", ":", " ", "A" >>

\* the context the blocks of a ranking make, block by block in the order
\* returned with one blank line between two blocks
WrittenContext(documents) ==
  CASE documents = << >> -> << >>
    [] documents = << DocA, DocB >> -> ContextAB
    [] documents = << DocC, DocB, DocA >> -> ContextCBA

\* C11: when needs_retrieval is true and the retriever returned, Retrieve
\* has called it exactly once, with the question and top-k 3, the state
\* holds the returned documents unchanged and in order, and context is the
\* blocks "Source: <source>\nContent: <content>" joined by a blank line in
\* that order, the empty string for zero documents
C11_RetrieveStoresAndFormats ==
  \A t \in Callers :
    (pc[t] \in { "answer", "reflect", "end", "done" } /\ st[t].needs_retrieval) =>
      /\ hist[t].kb_calls = 1
      /\ hist[t].kb_query = st[t].question
      /\ hist[t].kb_k = 3
      /\ st[t].retrieved_documents = hist[t].kb_returned
      /\ st[t].context = WrittenContext(hist[t].kb_returned)

\* Retrieve has stored the ranking DocA, DocB and its two-block context
C11_Witness ==
  \E t \in Callers :
    /\ pc[t] = "answer"
    /\ st[t].needs_retrieval
    /\ hist[t].kb_calls = 1
    /\ st[t].retrieved_documents = << DocA, DocB >>
    /\ st[t].context = ContextAB

\* the two texts a failed dispatch returns
FailureTexts == { ErrNoProviders, ErrAllFailed }

\* the first five characters of s spell "Error"
BeginsWithError(s) ==
  /\ Len(s) >= 5
  /\ s[1] = "E" /\ s[2] = "r" /\ s[3] = "r" /\ s[4] = "o" /\ s[5] = "r"

\* C12: after Reflect, is_answer_relevant is true exactly when the answer
\* has more than 20 characters and does not start with "Error"; it is false
\* for both texts a failed dispatch returns and for every answer of 20
\* characters or fewer
C12_RelevantIffLongAndNoError ==
  \A t \in Callers :
    pc[t] \in { "end", "done" } =>
      /\ st[t].is_answer_relevant <=>
           (Len(st[t].answer) >= 21 /\ ~ BeginsWithError(st[t].answer))
      /\ st[t].answer \in FailureTexts => ~ st[t].is_answer_relevant
      /\ Len(st[t].answer) <= 20 => ~ st[t].is_answer_relevant

\* Reflect has judged an answer of exactly 21 characters relevant
C12_Witness ==
  \E t \in Callers :
    /\ pc[t] = "end"
    /\ st[t].answer = Text21
    /\ st[t].is_answer_relevant

\* some credential of the report's list is Healthy
HasHealthy(entries) == \E i \in DOMAIN entries : entries[i].status = "Healthy"

\* C13: the overall level of a health report is one of the three levels:
\* Excellent exactly when both kinds have a Healthy credential, Good exactly
\* when one kind has and the other has not, Critical exactly when neither
\* has, kinds without credentials included
C13_OverallLevel ==
  health_report # NoReport =>
    LET g == HasHealthy(health_report.groq)
        m == HasHealthy(health_report.gemini)
        level == health_report.overall_status
    IN  /\ level \in { "Excellent", "Good", "Critical" }
        /\ level = "Excellent" <=> (g /\ m)
        /\ level = "Good" <=> ((g /\ ~ m) \/ (~ g /\ m))
        /\ level = "Critical" <=> (~ g /\ ~ m)

\* a report over a pool without Groq credentials whose Gemini credential is
\* Healthy: the level is Good
C13_Witness ==
  /\ health_report.groq = << >>
  /\ HasHealthy(health_report.gemini)
  /\ health_report.overall_status = "Good"

\* some credential is pooled
PoolNonEmpty == groq_clients # << >> \/ gemini_models # << >>

\* C14: no pipeline stands over an empty pool: the chatbot is initialized,
\* and a question is taken on, only when some credential of some kind
\* passed its initial probe
C14_NoPipelineOverEmptyPool ==
  /\ initialized => PoolNonEmpty
  /\ \A t \in Callers : pc[t] # "idle" => PoolNonEmpty

\* the keys of a client list stand in the order of the input key list
InInputOrder(clients) ==
  \A i, j \in DOMAIN clients : i < j => clients[i] < clients[j]

\* the client list of a kind
Kept(kind) == IF kind = "groq" THEN groq_clients ELSE gemini_models

\* C15: after each initial probe the probed key is in its kind's list
\* exactly when the probe answered with a non-empty response, so a key whose
\* probe raised or came back empty is not pooled; both lists keep the order
\* of the input keys
C15_PoolKeepsExactlyAnsweringKeys ==
  /\ InInputOrder(groq_clients)
  /\ InInputOrder(gemini_models)
  /\ last_probe.kind # "none" =>
       (last_probe.key \in Range(Kept(last_probe.kind))
          <=> last_probe.outcome = "text")

\* the attempts a log holds for one kind, in the order made
AttemptsOf(log, kind) ==
  LET OfKind(e) == e.kind = kind
  IN  SelectSeq(log, OfKind)

\* "Groq-<n>" and "Gemini-<n>", n counted from one, written out
WrittenName(kind, n) ==
  (IF kind = "groq" THEN << "G", "r", "o", "q", "-" >>
   ELSE << "G", "e", "m", "i", "n", "i", "-" >>)
  \o << CASE n = 1 -> "1" [] n = 2 -> "2" [] n = 3 -> "3" [] OTHER -> "4" >>

\* the last attempt of a log
LastAttempt(l) == l.attempts[Len(l.attempts)]

\* C16: within a kind a dispatch attempts the credentials in registration
\* order, first, second, ... without a gap, and after a dispatch that was
\* answered the provider marker names the credential of the last attempt.
\* With two Groq credentials and no Gemini credential, the first raising
\* (an invalid credential) and the second answering, the dispatch makes
\* both attempts in that order and returns the second one's text marked
\* "Groq-2"
C16_RegistrationOrderAndAnswererNamed ==
  \A t \in Callers :
    Dispatched(t) =>
      /\ \A k \in Kinds :
           \A i \in DOMAIN AttemptsOf(last[t].attempts, k) :
             AttemptsOf(last[t].attempts, k)[i].key_index = i
      /\ last[t].success =>
           current_provider =
             WrittenName(LastAttempt(last[t]).kind, LastAttempt(last[t]).key_index)
      /\ (/\ last[t].groq_n = 2 /\ last[t].gemini_n = 0
          /\ last[t].attempts # << >>
          /\ last[t].attempts[1].outcome = "raises"
          /\ last[t].would_answer) =>
           /\ Len(last[t].attempts) = 2
           /\ last[t].attempts[1].key_index = 1
           /\ last[t].attempts[2].key_index = 2
           /\ last[t].text \in Texts
           /\ current_provider = << "G", "r", "o", "q", "-", "2" >>

\* the dispatch of the scenario: Groq-1 raised, Groq-2 answered, no Gemini
C16_Witness ==
  \E t \in Callers :
    /\ Dispatched(t)
    /\ last[t].groq_n = 2
    /\ last[t].gemini_n = 0
    /\ Len(last[t].attempts) = 2
    /\ last[t].attempts[1].outcome = "raises"
    /\ last[t].attempts[2].outcome = "text"
    /\ last[t].text \in Texts
    /\ current_provider = << "G", "r", "o", "q", "-", "2" >>

\* how many credentials of a kind the dispatch had before it
PoolSize(l, kind) == IF kind = "groq" THEN l.groq_n ELSE l.gemini_n

\* C17: for either kind an attempt that came back with the empty text is a
\* failed attempt: the dispatch does not end on it with a response, and when
\* the kind holds a further credential that one is attempted next
C17_EmptyTextIsAFailure ==
  \A t \in Callers :
    Dispatched(t) =>
      \A i \in DOMAIN last[t].attempts :
        last[t].attempts[i].outcome = "empty" =>
          /\ ~ (i = Len(last[t].attempts) /\ last[t].success)
          /\ last[t].attempts[i].key_index
               < PoolSize(last[t], last[t].attempts[i].kind) =>
                 /\ i < Len(last[t].attempts)
                 /\ last[t].attempts[i + 1].kind = last[t].attempts[i].kind
                 /\ last[t].attempts[i + 1].key_index
                      = last[t].attempts[i].key_index + 1

\* the dispatch was answered by a credential of kind k
KindAnswered(l, k) == l.success /\ LastAttempt(l).kind = k

\* C18: over one dispatch a flag changes to true only when a credential of
\* its kind answered and is true after every such answer; it changes to
\* false only when the whole dispatch failed, never in a call that a later
\* credential or kind answered
C18_FlagFollowsDispatchOutcome ==
  \A t \in Callers :
    Dispatched(t) =>
      \A k \in Kinds :
        /\ (last[t].health_after[k] /\ ~ last[t].health_before[k]) =>
             KindAnswered(last[t], k)
        /\ KindAnswered(last[t], k) => last[t].health_after[k]
        /\ (~ last[t].health_after[k] /\ last[t].health_before[k]) =>
             ~ last[t].success

\* the call handed back a provider's response, a non-empty text
Answered(d) ==
  /\ ~ d.raised
  /\ d.success
  /\ ~ IsNone(d.text)
  /\ d.text # << >>

\* over client lists of gn and mn credentials and flags h there are
\* per-credential outcomes for which one shuffle order ends in a response
\* and another does not
OrderSensitive(gn, mn, h) ==
  \E beh \in Behaviours(Pool(gn), Pool(mn)) :
    \E txt \in Texts :
      \E o1, o2 \in Shuffles(Providers(Pool(gn), Pool(mn), h)) :
        Answered(call_llm_with_fallback(Pool(gn), Pool(mn), h, beh, o1, txt))
          # Answered(call_llm_with_fallback(Pool(gn), Pool(mn), h, beh, o2, txt))

OrderSensitiveTable ==
  [gn \in 0..MaxGroqKeys, mn \in 0..MaxGeminiKeys, h \in [Kinds -> BOOLEAN] |->
     OrderSensitive(gn, mn, h)]

OrderSensitivePools ==
  IF OrderSensitiveTable = OrderSensitiveTable THEN OrderSensitiveTable
  ELSE OrderSensitiveTable

\* C19: whenever a dispatch is about to be made, for each fixed choice of
\* per-credential outcomes every shuffle order of the candidate kinds ends
\* the same way, in a response or in a failure
C19_ResultIndependentOfShuffle ==
  \A t \in Callers :
    pc[t] \in { "plan", "answer", "reflect" } =>
      ~ OrderSensitivePools[Len(groq_clients), Len(gemini_models), api_health]

\* C20: the stages run in the order Plan, Retrieve, Answer, Reflect, each
\* once: a run stands before Plan with no dispatch made, before Retrieve and
\* before Answer with one, before Reflect with two and at its end with
\* three, the retriever called at most once and never before Retrieve; and
\* the run ends abnormally only when an external call did not return
C20_StagesInOrderToTheEnd ==
  \A t \in Callers :
    /\ pc[t] = "plan" => (hist[t].dispatches = 0 /\ hist[t].kb_calls = 0)
    /\ pc[t] = "retrieve" => (hist[t].dispatches = 1 /\ hist[t].kb_calls = 0)
    /\ pc[t] = "answer" => (hist[t].dispatches = 1 /\ hist[t].kb_calls <= 1)
    /\ pc[t] = "reflect" => (hist[t].dispatches = 2 /\ hist[t].kb_calls <= 1)
    /\ pc[t] \in { "end", "done" } =>
         (hist[t].dispatches = 3 /\ hist[t].kb_calls <= 1)
    /\ pc[t] = "raised" => hist[t].kb_failed

\* the Plan dispatch of caller t's run returned a failure text
PlanFailed(t) == hist[t].plan_end \in { "exhausted", "no_providers" }

\* C21: a Plan dispatch that fails does not abort the run: Plan returns with
\* needs_retrieval false, since neither failure text holds "YES" in any
\* case, Retrieve runs and retrieves nothing, Answer and Reflect run, and
\* the run does not end abnormally
C21_PlanFailureNeverAborts ==
  \A t \in Callers :
    /\ (last[t].stage = "plan" /\ ~ last[t].success) =>
         /\ pc[t] = "retrieve"
         /\ last[t].text \in FailureTexts
         /\ ~ HasYesAnywhere(last[t].text)
         /\ PlanFailed(t)
    /\ PlanFailed(t) =>
         /\ ~ st[t].needs_retrieval
         /\ pc[t] \in { "retrieve", "answer", "reflect", "end", "done" }
         /\ pc[t] \in { "answer", "reflect", "end", "done" } =>
              /\ hist[t].kb_calls = 0
              /\ st[t].retrieved_documents = << >>
              /\ st[t].context = << >>
         /\ pc[t] \in { "end", "done" } => hist[t].dispatches = 3

\* the Answer dispatch of caller t's run returned a failure text
AnswerFailed(t) ==
  /\ hist[t].dispatches >= 2
  /\ hist[t].answer_by = << >>

\* C22: when the Answer dispatch fails, its failure text is the answer,
\* the run goes on to Reflect and to its end, and the final state is not
\* relevant
C22_AnswerFailureFlowsToReflect ==
  \A t \in Callers :
    AnswerFailed(t) =>
      /\ pc[t] \in { "reflect", "end", "done" }
      /\ st[t].answer \in FailureTexts
      /\ pc[t] \in { "end", "done" } =>
           (hist[t].dispatches = 3 /\ ~ st[t].is_answer_relevant)
      /\ pc[t] = "done" =>
           (result[t].answer = st[t].answer /\ ~ result[t].is_answer_relevant)

\* Plan was answered, the Answer dispatch was exhausted, Reflect was
\* answered, and the returned state holds the failure text, not relevant
C22_Witness ==
  \E t \in Callers :
    /\ pc[t] = "done"
    /\ hist[t].plan_end = "answered"
    /\ result[t].answer = ErrAllFailed
    /\ result[t].reflection \in Texts
    /\ ~ result[t].is_answer_relevant

\* C23: Answer picks its template by needs_retrieval alone: the
\* with-context template whenever it is true, also over an empty context,
\* the general template whenever it is false
C23_TemplateByNeedsRetrievalAlone ==
  \A t \in Callers :
    hist[t].template # "none" =>
      hist[t].template =
        IF st[t].needs_retrieval THEN "with_context" ELSE "general"

\* the step is a call of check_api_health
ProbeStep == health_report = NoReport /\ health_report' # NoReport

\* the entries of a report list number the credentials 1, 2, ...
NumberedEntries(entries, n) ==
  /\ Len(entries) = n
  /\ \A i \in 1..n : entries[i].key_index = i

\* C24: a call of check_api_health leaves both health flags and the
\* provider marker as they were, whatever the probes meet; it makes one
\* probe per pooled credential and its report has one entry per credential
C24_HealthCheckLeavesFlagsAndMarker ==
  [][ProbeStep =>
       (/\ api_health' = api_health
        /\ current_provider' = current_provider
        /\ Len(health_probes'.groq) = Len(groq_clients)
        /\ Len(health_probes'.gemini) = Len(gemini_models)
        /\ NumberedEntries(health_report'.groq, Len(groq_clients))
        /\ NumberedEntries(health_report'.gemini, Len(gemini_models)))
    ]_vars

\* a health check found a Groq credential Healthy while the Groq flag was
\* false and a provider marker was set
C24_Witness ==
  /\ health_report # NoReport
  /\ HasHealthy(health_report.groq)
  /\ ~ api_health["groq"]
  /\ current_provider # Unknown

\* C25: with callers in parallel, the state a call returns reflects that
\* call's own dispatches: its provider marker names the provider of the
\* call's own latest answered dispatch
C25_ReturnedStateIsTheCallsOwn ==
  \A t \in Callers :
    (pc[t] = "done" /\ hist[t].any_success) =>
      result[t].current_provider = hist[t].last_by

\* C26: once QAAgent.__init__ has returned, no step (dispatch, question or
\* health check) changes either client list
C26_PoolFixedAfterConstruction ==
  [][(agent_pc \in { "constructed", "ready" }) =>
       (groq_clients' = groq_clients /\ gemini_models' = gemini_models)
    ]_vars

\* after a question that a provider answered, a health check found one of
\* two Groq credentials Unhealthy, and both are still pooled
C26_Witness ==
  /\ initialized
  /\ current_provider # Unknown
  /\ Len(groq_clients) = 2
  /\ Len(health_report.groq) = 2
  /\ \E i \in 1..2 : health_report.groq[i].status = "Unhealthy"

\* no attempt of the log met an exception that left its handler
OrdinaryAttempts(log) == \A i \in DOMAIN log : log[i].outcome # "fatal"

\* the step is a dispatch of caller t
DispatchStep(t) == last'[t] # last[t] /\ last'[t].stage # "none"

\* C27: both flags start true, and no step in which every credential
\* attempt returned or raised an ordinary exception, and no health check,
\* makes a true flag false
C27_FlagsStayTrueUnderOrdinaryFailures ==
  [][(/\ \A k \in Kinds : api_health[k]
      /\ \A t \in Callers :
           DispatchStep(t) => OrdinaryAttempts(last'[t].attempts)) =>
       (\A k \in Kinds : api_health'[k])
    ]_vars

\* a dispatch over both kinds in which every attempt raised an ordinary
\* exception: it is exhausted and both flags are true
C27_Witness ==
  \E t \in Callers :
    /\ Dispatched(t)
    /\ last[t].text = ErrAllFailed
    /\ Len(last[t].order) = 2
    /\ \A i \in DOMAIN last[t].attempts : last[t].attempts[i].outcome = "raises"
    /\ Len(last[t].attempts) = last[t].groq_n + last[t].gemini_n
    /\ \A k \in Kinds : api_health[k]

\* the fields of the state of a run
Fields ==
  { "question", "needs_retrieval", "retrieved_documents", "context",
    "answer", "reflection", "is_answer_relevant" }

\* the step leaves every field of caller t's state but those of own as is
WritesOnly(t, own) == \A f \in Fields \ own : st'[t][f] = st[t][f]

\* C28: each stage writes its own fields only: Plan needs_retrieval,
\* Retrieve retrieved_documents and context, Answer answer, Reflect
\* reflection and is_answer_relevant; the returned state holds every field
\* as the run left it, the question as it was put in
C28_StagesWriteOwnFields ==
  [][\A t \in Callers :
       (/\ pc[t] = "plan" => WritesOnly(t, { "needs_retrieval" })
        /\ pc[t] = "retrieve" =>
             WritesOnly(t, { "retrieved_documents", "context" })
        /\ pc[t] = "answer" => WritesOnly(t, { "answer" })
        /\ pc[t] = "reflect" =>
             WritesOnly(t, { "reflection", "is_answer_relevant" })
        /\ (pc[t] = "end" /\ pc'[t] = "done") =>
             (/\ \A f \in Fields : result'[t][f] = st[t][f]
              /\ result'[t].question \in Questions))
    ]_vars

\* a returned state in which every stage has left its mark
C28_Witness ==
  \E t \in Callers :
    /\ pc[t] = "done"
    /\ result[t].question \in Questions
    /\ result[t].needs_retrieval
    /\ result[t].retrieved_documents # << >>
    /\ result[t].context # << >>
    /\ result[t].answer \in Texts
    /\ result[t].reflection \in Texts
    /\ result[t].is_answer_relevant

\* C29: when the Reflect dispatch fails after an answered Answer of more
\* than 20 characters, the state is relevant and reflection holds the
\* failure text
C29_RelevanceIgnoresReflectOutcome ==
  \A t \in Callers :
    (/\ pc[t] = "end"
     /\ last[t].stage = "reflect"
     /\ ~ last[t].success
     /\ hist[t].answer_by # << >>
     /\ Len(st[t].answer) > 20) =>
      /\ st[t].is_answer_relevant
      /\ st[t].reflection = last[t].text
      /\ st[t].reflection \in FailureTexts

\* Reflect was exhausted on the 21-character answer of a provider
C29_Witness ==
  \E t \in Callers :
    /\ pc[t] = "end"
    /\ st[t].answer = Text21
    /\ st[t].reflection = ErrAllFailed
    /\ st[t].is_answer_relevant

\* no kind is a candidate: each client list is empty or flagged false
NoCandidate(gn, mn, h) ==
  /\ gn = 0 \/ ~ h["groq"]
  /\ mn = 0 \/ ~ h["gemini"]

\* what C30 says of a state
NoCandidateOutcome ==
  \A t \in Callers :
    /\ (/\ Dispatched(t)
        /\ NoCandidate(last[t].groq_n, last[t].gemini_n, last[t].health_before)) =>
         /\ last[t].attempts = << >>
         /\ last[t].health_after = last[t].health_before
         /\ ~ last[t].raised
         /\ BeginsWithError(last[t].text)
    /\ hist[t].plan_end = "no_providers" =>
         /\ pc[t] # "raised"
         /\ ~ st[t].needs_retrieval
         /\ st[t].retrieved_documents = << >>
         /\ hist[t].kb_calls = 0
         /\ pc[t] \in { "end", "done" } => ~ st[t].is_answer_relevant
         /\ pc[t] = "done" =>
              /\ ~ result[t].needs_retrieval
              /\ result[t].retrieved_documents = << >>
              /\ ~ result[t].is_answer_relevant

\* C30: a dispatch without a candidate kind makes no attempt, changes
\* neither flag nor the provider marker and returns a text that starts with
\* "Error"; a question put to such an agent ends with needs_retrieval
\* false, no documents and not relevant
C30_NoCandidateDispatch ==
  [][(/\ NoCandidateOutcome'
      /\ \A t \in Callers :
           (/\ DispatchStep(t)
            /\ NoCandidate(Len(groq_clients), Len(gemini_models), api_health)) =>
             (api_health' = api_health /\ current_provider' = current_provider))
    ]_vars

\* a question put to an agent whose one pooled kind is flagged false has
\* come back with the no-provider text
C30_Witness ==
  \E t \in Callers :
    /\ pc[t] = "done"
    /\ hist[t].plan_end = "no_providers"
    /\ groq_clients # << >>
    /\ ~ api_health["groq"]
    /\ result[t].answer = ErrNoProviders
    /\ result[t].current_provider # Unknown


\* a dispatch attempt that meets outcome o on a credential of the kind
\* hands a response back
AttemptSucceeds(kind, o) == AttemptAction(kind, o) = "return"

\* C31: the health check and the dispatcher judge a credential alike: a
\* credential reported Healthy is one on which a dispatch attempt that meets
\* the same provider behaviour succeeds
C31_HealthyMeansDispatchSucceeds ==
  health_report # NoReport =>
    /\ \A i \in DOMAIN health_report.groq :
         health_report.groq[i].status = "Healthy" =>
           AttemptSucceeds("groq", health_probes.groq[i])
    /\ \A i \in DOMAIN health_report.gemini :
         health_report.gemini[i].status = "Healthy" =>
           AttemptSucceeds("gemini", health_probes.gemini[i])


\* the question holds nothing but whitespace
WhitespaceOnly(question) ==
  \A i \in DOMAIN question : question[i] \in Whitespace

\* the step is a call of process_question by caller t
CallStep(t) == pc[t] = "idle" /\ response'[t] # response[t]

\* C32: a process_question call made while the chatbot is not initialized,
\* or with a question that is empty or whitespace only, returns its fixed
\* message and changes nothing: no dispatch, no retrieval, no health probe;
\* and a run of the agent is under way only for an initialized chatbot and
\* a question that is not blank
C32_RefusalsNeverReachTheAgent ==
  [][\A t \in Callers :
       (/\ (/\ CallStep(t)
            /\ (~ initialized \/ WhitespaceOnly(response'[t].question))) =>
              (/\ response'[t].kind = "refusal"
               /\ response'[t].message =
                    (IF ~ initialized THEN NotInitializedMessage
                     ELSE EmptyQuestionMessage)
               /\ UNCHANGED << agentVars, api_health, current_provider, pc,
                               st, result, last, hist >>)
        /\ pc'[t] # "idle" =>
             (initialized' /\ ~ WhitespaceOnly(st'[t].question)))
    ]_vars

\* an initialized chatbot has refused a question of whitespace
C32_Witness ==
  \E t \in Callers :
    /\ initialized
    /\ response[t].kind = "refusal"
    /\ response[t].message = EmptyQuestionMessage
    /\ response[t].question # << >>
    /\ pc[t] = "idle"

\* C33: no exception leaves process_question: a call in which ask_question
\* raised ends with the error response, a call whose ask_question returned
\* ends with the response or, when the follow-up health check raised, with
\* the error response; and the chatbot is initialized only after the
\* knowledge base was loaded and QAAgent was constructed
C33_ProcessQuestionNeverRaises ==
  [][(/\ \A t \in Callers :
           /\ response'[t].kind # "raised"
           /\ (pc[t] = "raised" /\ pc'[t] = "idle") =>
                response'[t].kind = "error"
           /\ (pc[t] = "done" /\ pc'[t] = "idle") =>
                response'[t].kind \in { "response", "error" }
      /\ initialized' => (boot'.kb = "loaded" /\ boot'.agent = "built"))
    ]_vars

\* ask_question raised and the caller got the error response
C33_Witness ==
  \E t \in Callers :
    /\ initialized
    /\ pc[t] = "idle"
    /\ response[t].kind = "error"
    /\ response[t].question \in Questions

\* the number of entries of a report list whose status is 'Healthy', as
\* check_api_health counts them
EqualHealthyCount(entries) ==
  Cardinality({ i \in DOMAIN entries : entries[i].status = Healthy })

\* C34: over the same per-key results the dashboard's overall level is the
\* level check_api_health gives them
C34_DashboardLevelMatchesAgent ==
  api_status # NoApiStatus =>
    api_status.overall =
      OverallStatus(EqualHealthyCount(api_status.groq),
                    EqualHealthyCount(api_status.gemini))

\* the counts of providers_used, added up
RECURSIVE SumCounts(_, _)
SumCounts(used, names) ==
  IF names = { } THEN 0
  ELSE LET n == CHOOSE x \in names : TRUE
       IN  used[n] + SumCounts(used, names \ { n })

\* the statistics add up
StatsConsistent ==
  /\ stats.total_queries = stats.successful_queries + stats.failed_queries
  /\ SumCounts(stats.providers_used, DOMAIN stats.providers_used)
       = stats.total_queries

\* C35: after every update_stats call total_queries is successful_queries
\* plus failed_queries and the sum of the counts of providers_used, and each
\* call raises total_queries by exactly one
C35_StatsAddUp ==
  [][(/\ StatsConsistent'
      /\ stats' # stats => stats'.total_queries = stats.total_queries + 1)
    ]_vars

\* three calls, one of them a failure, over two providers, one of them twice
C35_Witness ==
  /\ stats.total_queries = 3
  /\ stats.failed_queries = 1
  /\ \E a, b \in DOMAIN stats.providers_used :
       stats.providers_used[a] = 2 /\ stats.providers_used[b] = 1

====
